---------------------------- MODULE Spec2Model ----------------------------
(***************************************************************************)
(* A model of the limit-order matching engine of src/src/lib.rs.           *)
(*                                                                         *)
(* The OrderBook (bids, asks, trades) is the state.  Each BTreeMap is a    *)
(* sequence of price levels in ascending key order, a level being its key  *)
(* (a Decimal) and its Vec<Order>.  Prices and amounts travel as text and  *)
(* are parsed to Decimal (a mantissa and a scale) before any arithmetic    *)
(* and rendered back to text when stored, as in the source.                *)
(*                                                                         *)
(* Order.account_id, Order.pair, Order.timestamp, Trade.trade_id,          *)
(* Trade.pair and Trade.timestamp are copied through by the source and     *)
(* never read by it; they are left out of the records.                     *)
(***************************************************************************)
EXTENDS Integers, Sequences, FiniteSets

\* Number of process_order calls made on one book.
MaxCalls == 4

\* Texts handed in as Order.limit_price and Order.amount: two texts of one
\* price ("2" and "2.0"), amounts of two scales, a zero and a negative amount.
\* Sides are those of the data model; order ids are unique over the life of
\* the book, as the data model has them.
PriceTexts == {"1", "2", "2.0", "3"}
AmountTexts == {"1", "2.0", "0", "-1"}
Sides == {"BUY", "SELL"}

\* Texts that are no decimal, and the <<limit_price, amount>> pairs in which
\* one of the two texts is such a text.
MalformedTexts == {"abc"}
MalformedPairs == (MalformedTexts \X {"1"}) \cup ({"1"} \X MalformedTexts)

\* Number of generate_order_book_output calls between two process_order calls.
MaxSnapshots == 2

VARIABLES
    bids,       \* OrderBook.bids
    asks,       \* OrderBook.asks
    trades,     \* OrderBook.trades, the ledger
    call,       \* the Order handed to the last process_order call
    ret,        \* the Vec<Trade> that call returned
    pre,        \* bids, asks and trades as they were when that call began
    calls,      \* number of process_order calls so far
    issued,     \* number of order ids handed out so far
    deleted,    \* the DELETE instructions so far that named a resting order
    panicked,   \* the last process_order call panicked: the process is gone
    snapshots,  \* what generate_order_book_output returned, call after call,
                \* since the last process_order call
    submitted   \* the amount text of each CREATE process_order has handled,
                \* at the place of its order id

vars == <<bids, asks, trades, call, ret, pre, calls, issued, deleted,
          panicked, snapshots, submitted>>

----------------------------------------------------------------------------
(* rust_decimal::Decimal: the value m / 10^s, s being the scale *)

Dec(m, s) == [m |-> m, s |-> s]

\* Decimal::ZERO
Zero == Dec(0, 0)

RECURSIVE Pow10(_)
Pow10(n) == IF n = 0 THEN 1 ELSE 10 * Pow10(n - 1)

\* Ord for Decimal compares values, whatever the scales
DecLt(a, b) == a.m * Pow10(b.s) < b.m * Pow10(a.s)
DecLe(a, b) == a.m * Pow10(b.s) <= b.m * Pow10(a.s)
DecEq(a, b) == a.m * Pow10(b.s) = b.m * Pow10(a.s)

\* a - b and a + b carry the larger of the two scales
DecSub(a, b) ==
    IF a.s >= b.s
    THEN Dec(a.m - b.m * Pow10(a.s - b.s), a.s)
    ELSE Dec(a.m * Pow10(b.s - a.s) - b.m, b.s)

DecAdd(a, b) ==
    IF a.s >= b.s
    THEN Dec(a.m + b.m * Pow10(a.s - b.s), a.s)
    ELSE Dec(a.m * Pow10(b.s - a.s) + b.m, b.s)

\* DecMin giving its first argument whatever the second is
DecMinFirst(a, b) == a

\* Decimal::min(self, other)
DecMin(a, b) == IF DecLt(a, b) THEN a ELSE b

Digit(n) == <<"0", "1", "2", "3", "4", "5", "6", "7", "8", "9">>[n + 1]

RECURSIVE NatText(_)
NatText(n) == IF n < 10 THEN Digit(n) ELSE NatText(n \div 10) \o Digit(n % 10)

\* the s low digits of n, leading zeros kept
RECURSIVE FracText(_, _)
FracText(n, s) == IF s = 0 THEN "" ELSE FracText(n \div 10, s - 1) \o Digit(n % 10)

Abs(n) == IF n < 0 THEN 0 - n ELSE n

\* Decimal::to_string: sign, integer part, and exactly `scale` fraction digits
to_string(d) ==
    (IF d.m < 0 THEN "-" ELSE "")
        \o NatText(Abs(d.m) \div Pow10(d.s))
        \o (IF d.s > 0 THEN "." \o FracText(Abs(d.m) % Pow10(d.s), d.s) ELSE "")

\* The decimals whose text the model can meet.
DecDomain == [m : (0 - 40)..40, s : {0, 1}]

\* Decimal::from_str on the texts of DecDomain: the scale is the number of
\* fraction digits, the mantissa the digits read as one integer
ParseTable ==
    [t \in {to_string(d) : d \in DecDomain} |->
        CHOOSE d \in DecDomain : to_string(d) = t]

\* Decimal::from_str(text) is Ok
Parses(t) == t \in DOMAIN ParseTable

\* Decimal::from_str(text).unwrap()
from_str(t) == ParseTable[t]

----------------------------------------------------------------------------
(* BTreeMap<Decimal, Vec<Order>> as a sequence of levels, ascending by key *)

Level(price, orders) == [price |-> price, orders |-> orders]

\* index of the level whose key equals price, 0 when there is none
LevelIndex(book, price) ==
    IF \E i \in 1..Len(book) : DecEq(book[i].price, price)
    THEN CHOOSE i \in 1..Len(book) : DecEq(book[i].price, price)
    ELSE 0

\* BTreeMap::remove(&price)
RemoveLevel(book, price) ==
    SelectSeq(book, LAMBDA l : ~DecEq(l.price, price))

\* a new level for price, put where the key order wants it
InsertLevel(book, price, order) ==
    SelectSeq(book, LAMBDA l : DecLt(l.price, price))
        \o <<Level(price, <<order>>)>>
        \o SelectSeq(book, LAMBDA l : DecLt(price, l.price))

\* PushAt with the order put at the head of its level
PushAtHead(book, i, price, order) ==
    IF i > 0
    THEN [book EXCEPT ![i].orders = <<order>> \o @]
    ELSE InsertLevel(book, price, order)

\* push(order) on the level at index i, or on a new level when i = 0
PushAt(book, i, price, order) ==
    IF i > 0
    THEN [book EXCEPT ![i].orders = Append(@, order)]
    ELSE InsertLevel(book, price, order)

\* BTreeMap::entry(price).or_insert_with(Vec::new).push(order)
PushOrder(book, price, order) ==
    PushAt(book, LevelIndex(book, price), price, order)

\* RetainOthers with == for !=: the named order is the one kept
RetainNamed(orders, order_id) ==
    SelectSeq(orders, LAMBDA o : o.order_id = order_id)

\* Vec::retain(|o| o.order_id != order_id)
RetainOthers(orders, order_id) ==
    SelectSeq(orders, LAMBDA o : o.order_id # order_id)

\* KeepOrDrop without the removal of a level left with no order
KeepEvenEmpty(book, i, kept) == [book EXCEPT ![i].orders = kept]

\* the level at index i left with the orders kept, or removed when none is kept
KeepOrDrop(book, i, kept) ==
    IF kept = <<>>
    THEN RemoveLevel(book, book[i].price)
    ELSE [book EXCEPT ![i].orders = kept]

\* RetainAt removing the level instead of retaining the other orders in it
RetainAtDropLevel(book, i, order_id) ==
    IF i = 0 THEN book ELSE RemoveLevel(book, book[i].price)

\* if let Some(orders) = get_mut(&price) { retain; if is_empty { remove(&price) } }
RetainAt(book, i, order_id) ==
    IF i = 0 THEN book
    ELSE KeepOrDrop(book, i, RetainOthers(book[i].orders, order_id))

----------------------------------------------------------------------------
(* Records *)

Order(type_op, order_id, side, limit_price, amount) ==
    [type_op |-> type_op, order_id |-> order_id, side |-> side,
     limit_price |-> limit_price, amount |-> amount]

Trade(taker_order_id, maker_order_id, price, amount) ==
    [taker_order_id |-> taker_order_id, maker_order_id |-> maker_order_id,
     price |-> price, amount |-> amount]

----------------------------------------------------------------------------
(* match_buy_order.  The loop state st holds the asks being swept, *)
(* remaining_amount, trades, orders_to_update and asks_to_remove.  *)

\* one match of the taker against the i-th order of ask level k: the trade is
\* pushed, remaining_amount reduced, and the maker reduced in place (partial
\* fill) or marked in orders_to_update (complete fill)
BuyTrade(order, k, i, st, ask_amount, trade_amount) ==
    [st EXCEPT
        !.trades = Append(@, Trade(order.order_id, st.asks[k].orders[i].order_id,
                                   to_string(st.asks[k].price),
                                   to_string(trade_amount))),
        !.remaining_amount = DecSub(@, trade_amount),
        !.asks = IF DecLt(trade_amount, ask_amount)
                 THEN [@ EXCEPT ![k].orders[i].amount =
                          to_string(DecSub(ask_amount, trade_amount))]
                 ELSE @,
        !.orders_to_update =
                 IF DecLt(trade_amount, ask_amount)
                 THEN @
                 ELSE Append(@, <<st.asks[k].price, st.asks[k].orders[i].order_id>>)]

\* trade_amount = remaining_amount.min(ask_amount)
BuyFill(order, k, i, st, ask_amount) ==
    BuyTrade(order, k, i, st, ask_amount, DecMin(st.remaining_amount, ask_amount))

\* BuySweepOrders leaving the level after its first match
BuySweepOrdersOnce(order, k, i, st) ==
    IF i > Len(st.asks[k].orders) THEN st
    ELSE IF DecLe(st.remaining_amount, Zero) THEN st
    ELSE BuyFill(order, k, i, st, from_str(st.asks[k].orders[i].amount))

\* the inner loop over the orders of ask level k, from its i-th order on
RECURSIVE BuySweepOrders(_, _, _, _)
BuySweepOrders(order, k, i, st) ==
    IF i > Len(st.asks[k].orders) THEN st
    ELSE IF DecLe(st.remaining_amount, Zero) THEN st
    ELSE BuySweepOrders(order, k, i + 1,
            BuyFill(order, k, i, st, from_str(st.asks[k].orders[i].amount)))

\* "Check if all orders at this price level are filled"
AllFilled(ask_orders) ==
    \/ ask_orders = <<>>
    \/ \A j \in 1..Len(ask_orders) : DecLe(from_str(ask_orders[j].amount), Zero)

\* the end of the outer loop's body for level k
BuyLevelDone(k, st) ==
    IF AllFilled(st.asks[k].orders)
    THEN [st EXCEPT !.asks_to_remove = Append(@, st.asks[k].price)]
    ELSE st

\* AskTooHigh with >= for >: an ask at the buyer's limit is passed over
AskTooHighOrEqual(ask_price, buy_price) == DecLe(buy_price, ask_price)

\* if *ask_price > buy_price { break; }
AskTooHigh(ask_price, buy_price) == DecLt(buy_price, ask_price)

\* the outer loop over the ask levels in ascending key order, from level k on
RECURSIVE BuySweepLevels(_, _, _, _)
BuySweepLevels(order, buy_price, k, st) ==
    IF k > Len(st.asks) THEN st
    ELSE IF AskTooHigh(st.asks[k].price, buy_price) THEN st
    ELSE BuySweepLevels(order, buy_price, k + 1,
            BuyLevelDone(k, BuySweepOrders(order, k, 1, st)))

\* BuyRetainAt without asks_to_remove.push(price) for an emptied level
BuyRetainAtKeepLevel(st, i, price, kept) ==
    IF i = 0 THEN st ELSE [st EXCEPT !.asks[i].orders = kept]

\* retain on the level at index i, which stays in the map even when emptied
BuyRetainAt(st, i, price, kept) ==
    IF i = 0 THEN st
    ELSE [st EXCEPT
            !.asks[i].orders = kept,
            !.asks_to_remove = IF kept = <<>> THEN Append(@, price) ELSE @]

\* one entry (price, order_id) of orders_to_update
BuyRetain(st, i, price, order_id) ==
    BuyRetainAt(st, i, price,
        IF i = 0 THEN <<>> ELSE RetainOthers(st.asks[i].orders, order_id))

\* "Remove filled orders": the loop over orders_to_update, from entry n on
RECURSIVE BuyRemoveFilled(_, _)
BuyRemoveFilled(n, st) ==
    IF n > Len(st.orders_to_update) THEN st
    ELSE BuyRemoveFilled(n + 1,
            BuyRetain(st, LevelIndex(st.asks, st.orders_to_update[n][1]),
                      st.orders_to_update[n][1], st.orders_to_update[n][2]))

\* "Remove empty price levels": the loop over to_remove, from entry n on
RECURSIVE RemoveLevels(_, _, _)
RemoveLevels(book, to_remove, n) ==
    IF n > Len(to_remove) THEN book
    ELSE RemoveLevels(RemoveLevel(book, to_remove[n]), to_remove, n + 1)

BuyResult(st) ==
    [asks |-> RemoveLevels(st.asks, st.asks_to_remove, 1), trades |-> st.trades]

\* OrderBook::match_buy_order: the asks it leaves and the trades it returns
match_buy_order(book_asks, order) ==
    BuyResult(
        BuyRemoveFilled(1,
            BuySweepLevels(order, from_str(order.limit_price), 1,
                [asks |-> book_asks,
                 remaining_amount |-> from_str(order.amount),
                 trades |-> <<>>,
                 orders_to_update |-> <<>>,
                 asks_to_remove |-> <<>>])))

----------------------------------------------------------------------------
(* match_sell_order.  The loop state st holds the live bids, remaining_amount, *)
(* trades and the orders_to_update of the level being swept.                   *)

\* the sequence s back to front
RECURSIVE Reverse(_)
Reverse(s) == IF s = <<>> THEN <<>> ELSE Append(Reverse(Tail(s)), Head(s))

\* .filter(|(bid_price, _)| **bid_price >= sell_price)
BidEligible(bid_price, sell_price) == DecLe(sell_price, bid_price)

\* BidsToProcess without the sort: the levels stay in the map's ascending order
BidsToProcessUnsorted(book_bids, sell_price) ==
    SelectSeq(book_bids, LAMBDA l : BidEligible(l.price, sell_price))

\* bids_to_process: clones of the bid levels at or above sell_price, highest first
BidsToProcess(book_bids, sell_price) ==
    Reverse(SelectSeq(book_bids, LAMBDA l : BidEligible(l.price, sell_price)))

\* index in orders of the first order with this id, 0 when there is none
FirstWithId(orders, order_id) ==
    IF \E j \in 1..Len(orders) : orders[j].order_id = order_id
    THEN CHOOSE j \in 1..Len(orders) :
            /\ orders[j].order_id = order_id
            /\ \A h \in 1..(j - 1) : orders[h].order_id # order_id
    ELSE 0

\* SellUpdateAt leaving the amount of a maker filled in part as it was
SellUpdateAtSameAmount(st, k, j, order_id, bid_amount, trade_amount) ==
    IF j = 0 THEN st
    ELSE IF DecLt(trade_amount, bid_amount)
    THEN st
    ELSE [st EXCEPT !.orders_to_update = Append(@, order_id)]

\* "Update the bid order in the actual orderbook": j is the place in the live
\* level k of the first order with the clone's id, 0 when the level or the
\* order is not there
SellUpdateAt(st, k, j, order_id, bid_amount, trade_amount) ==
    IF j = 0 THEN st
    ELSE IF DecLt(trade_amount, bid_amount)
    THEN [st EXCEPT !.bids[k].orders[j].amount =
                        to_string(DecSub(bid_amount, trade_amount))]
    ELSE [st EXCEPT !.orders_to_update = Append(@, order_id)]

SellUpdateIn(st, k, order_id, bid_amount, trade_amount) ==
    SellUpdateAt(st, k,
        IF k = 0 THEN 0 ELSE FirstWithId(st.bids[k].orders, order_id),
        order_id, bid_amount, trade_amount)

\* SellTrade with the taker's limit price as the price of the trade
SellTradeAtLimit(order, bid_price, bid_order, st, bid_amount, trade_amount) ==
    SellUpdateIn(
        [st EXCEPT
            !.trades = Append(@, Trade(order.order_id, bid_order.order_id,
                                       order.limit_price,
                                       to_string(trade_amount))),
            !.remaining_amount = DecSub(@, trade_amount)],
        LevelIndex(st.bids, bid_price), bid_order.order_id, bid_amount, trade_amount)

\* one match of the taker against the cloned bid_order: the trade is pushed,
\* remaining_amount reduced, and the live order updated
SellTrade(order, bid_price, bid_order, st, bid_amount, trade_amount) ==
    SellUpdateIn(
        [st EXCEPT
            !.trades = Append(@, Trade(order.order_id, bid_order.order_id,
                                       to_string(bid_price),
                                       to_string(trade_amount))),
            !.remaining_amount = DecSub(@, trade_amount)],
        LevelIndex(st.bids, bid_price), bid_order.order_id, bid_amount, trade_amount)

\* trade_amount = remaining_amount.min(bid_amount)
SellFill(order, bid_price, bid_order, st, bid_amount) ==
    SellTrade(order, bid_price, bid_order, st, bid_amount,
              DecMin(st.remaining_amount, bid_amount))

\* SellSweepOrders without the break on remaining_amount <= Decimal::ZERO
RECURSIVE SellSweepOrdersNoBreak(_, _, _, _, _)
SellSweepOrdersNoBreak(order, bid_price, bid_orders, i, st) ==
    IF i > Len(bid_orders) THEN st
    ELSE SellSweepOrdersNoBreak(order, bid_price, bid_orders, i + 1,
            SellFill(order, bid_price, bid_orders[i], st,
                     from_str(bid_orders[i].amount)))

\* the inner loop over the cloned orders of one level, from its i-th order on
RECURSIVE SellSweepOrders(_, _, _, _, _)
SellSweepOrders(order, bid_price, bid_orders, i, st) ==
    IF i > Len(bid_orders) THEN st
    ELSE IF DecLe(st.remaining_amount, Zero) THEN st
    ELSE SellSweepOrders(order, bid_price, bid_orders, i + 1,
            SellFill(order, bid_price, bid_orders[i], st,
                     from_str(bid_orders[i].amount)))

\* Vec::retain(|o| !orders_to_update.contains(&o.order_id))
RetainNotIn(orders, orders_to_update) ==
    SelectSeq(orders,
        LAMBDA o : \A n \in 1..Len(orders_to_update) : orders_to_update[n] # o.order_id)

\* "Remove filled orders" of the live level at index k, and the level itself
\* when that empties it
SellRemoveAt(st, k) ==
    IF k = 0 THEN st
    ELSE [st EXCEPT !.bids =
            KeepOrDrop(@, k, RetainNotIn(st.bids[k].orders, st.orders_to_update))]

SellLevelDone(bid_price, st) ==
    SellRemoveAt(st, LevelIndex(st.bids, bid_price))

\* the outer loop over bids_to_process, from entry n on
RECURSIVE SellSweepLevels(_, _, _, _)
SellSweepLevels(order, bids_to_process, n, st) ==
    IF n > Len(bids_to_process) THEN st
    ELSE IF DecLe(st.remaining_amount, Zero) THEN st
    ELSE SellSweepLevels(order, bids_to_process, n + 1,
            SellLevelDone(bids_to_process[n].price,
                SellSweepOrders(order, bids_to_process[n].price,
                                bids_to_process[n].orders, 1,
                                [st EXCEPT !.orders_to_update = <<>>])))

SellResult(st) == [bids |-> st.bids, trades |-> st.trades]

\* OrderBook::match_sell_order: the bids it leaves and the trades it returns
match_sell_order(book_bids, order) ==
    SellResult(
        SellSweepLevels(order,
            BidsToProcess(book_bids, from_str(order.limit_price)), 1,
            [bids |-> book_bids,
             remaining_amount |-> from_str(order.amount),
             trades |-> <<>>,
             orders_to_update |-> <<>>]))

----------------------------------------------------------------------------
(* add_order, remove_order, get_remaining_order.  A book is <<bids, asks>>. *)

\* add_order with the two maps taken for each other
AddOrderOtherMap(book, order) ==
    IF order.side = "BUY"
    THEN <<book[1], PushOrder(book[2], from_str(order.limit_price), order)>>
    ELSE <<PushOrder(book[1], from_str(order.limit_price), order), book[2]>>

\* OrderBook::add_order
add_order(book, order) ==
    IF order.side = "BUY"
    THEN <<PushOrder(book[1], from_str(order.limit_price), order), book[2]>>
    ELSE <<book[1], PushOrder(book[2], from_str(order.limit_price), order)>>

\* remove_order looking on both sides whatever order.side says
RemoveOrderBothSides(book, order) ==
    <<RetainAt(book[1], LevelIndex(book[1], from_str(order.limit_price)),
               order.order_id),
      RetainAt(book[2], LevelIndex(book[2], from_str(order.limit_price)),
               order.order_id)>>

\* OrderBook::remove_order
remove_order(book, order) ==
    IF order.side = "BUY"
    THEN <<RetainAt(book[1], LevelIndex(book[1], from_str(order.limit_price)),
                    order.order_id),
           book[2]>>
    ELSE <<book[1],
           RetainAt(book[2], LevelIndex(book[2], from_str(order.limit_price)),
                    order.order_id)>>

\* trades.iter().filter(taker is order_id).map(amount).sum(), from Decimal::ZERO
RECURSIVE TradedAmount(_, _, _)
TradedAmount(ts, order_id, n) ==
    IF n = 0 THEN Zero
    ELSE IF ts[n].taker_order_id = order_id
    THEN DecAdd(TradedAmount(ts, order_id, n - 1), from_str(ts[n].amount))
    ELSE TradedAmount(ts, order_id, n - 1)

\* RemainingOf without remaining_order.amount = remaining_amount.to_string()
RemainingOfWhole(original_order, remaining_amount) ==
    IF DecLt(Zero, remaining_amount) THEN <<original_order>> ELSE <<>>

\* Some(order with the remaining amount) as <<order>>, None as <<>>
RemainingOf(original_order, remaining_amount) ==
    IF DecLt(Zero, remaining_amount)
    THEN <<[original_order EXCEPT !.amount = to_string(remaining_amount)]>>
    ELSE <<>>

\* get_remaining_order without the remaining_amount > Decimal::ZERO test
GetRemainingOrderAlways(original_order, ts) ==
    <<[original_order EXCEPT !.amount =
          to_string(DecSub(from_str(original_order.amount),
                           TradedAmount(ts, original_order.order_id, Len(ts))))]>>

\* OrderBook::get_remaining_order
get_remaining_order(original_order, ts) ==
    RemainingOf(original_order,
        DecSub(from_str(original_order.amount),
               TradedAmount(ts, original_order.order_id, Len(ts))))

----------------------------------------------------------------------------
(* process_order *)

\* AddRemaining adding the remainder a second time
AddRemainingTwice(book, remaining) ==
    IF remaining = <<>> THEN book
    ELSE add_order(add_order(book, remaining[1]), remaining[1])

\* if let Some(remaining_order) = ... { self.add_order(remaining_order) }
AddRemaining(book, remaining) ==
    IF remaining = <<>> THEN book ELSE add_order(book, remaining[1])

\* Returned with the new trades put in front of the ledger
ReturnedInFront(book, book_trades, new_trades) ==
    [bids |-> book[1], asks |-> book[2],
     trades |-> new_trades \o book_trades,
     new_trades |-> new_trades]

\* the end of process_order: the ledger extended by new_trades, which are returned
Returned(book, book_trades, new_trades) ==
    [bids |-> book[1], asks |-> book[2],
     trades |-> book_trades \o new_trades,
     new_trades |-> new_trades]

\* the CREATE arm after matching: the remainder, if any, comes to rest
Created(book, book_trades, order, new_trades) ==
    Returned(AddRemaining(book, get_remaining_order(order, new_trades)),
             book_trades, new_trades)

CreatedBuy(book, book_trades, order, matched) ==
    Created(<<book[1], matched.asks>>, book_trades, order, matched.trades)

CreatedSell(book, book_trades, order, matched) ==
    Created(<<matched.bids, book[2]>>, book_trades, order, matched.trades)

\* process_order without the test of type_op for "CREATE": whatever is no
\* DELETE is matched and comes to rest
ProcessOrderAnyKind(book, book_trades, order) ==
    IF order.type_op = "DELETE"
    THEN Returned(remove_order(book, order), book_trades, <<>>)
    ELSE IF order.side = "BUY"
    THEN CreatedBuy(book, book_trades, order, match_buy_order(book[2], order))
    ELSE CreatedSell(book, book_trades, order, match_sell_order(book[1], order))

\* OrderBook::process_order: the book it leaves and the trades it returns
process_order(book, book_trades, order) ==
    IF order.type_op = "CREATE"
    THEN IF order.side = "BUY"
         THEN CreatedBuy(book, book_trades, order, match_buy_order(book[2], order))
         ELSE IF order.side = "SELL"
         THEN CreatedSell(book, book_trades, order, match_sell_order(book[1], order))
         ELSE Returned(book, book_trades, <<>>)
    ELSE IF order.type_op = "DELETE"
    THEN Returned(remove_order(book, order), book_trades, <<>>)
    ELSE Returned(book, book_trades, <<>>)

----------------------------------------------------------------------------
(* generate_order_book_output *)

OrderBookEntry(order, price) ==
    [order_id |-> order.order_id, side |-> order.side,
     amount |-> order.amount, price |-> to_string(price)]

\* the entries of the orders of one level, in the level's order
LevelEntries(level) ==
    [i \in 1..Len(level.orders) |-> OrderBookEntry(level.orders[i], level.price)]

\* the entries of one map, level after level in key order
RECURSIVE MapEntries(_, _)
MapEntries(book, n) ==
    IF n = 0 THEN <<>> ELSE MapEntries(book, n - 1) \o LevelEntries(book[n])

\* generate_order_book_output with the two loops in the other order
GenerateAsksFirst(book_bids, book_asks) ==
    MapEntries(book_asks, Len(book_asks)) \o MapEntries(book_bids, Len(book_bids))

\* OrderBook::generate_order_book_output: the bids, then the asks
generate_order_book_output(book_bids, book_asks) ==
    MapEntries(book_bids, Len(book_bids)) \o MapEntries(book_asks, Len(book_asks))

----------------------------------------------------------------------------
(* The program: a caller feeding orders one at a time into one OrderBook *)

NoOrder == Order("", 0, "", "", "")

\* OrderBook::new()
Init ==
    /\ bids = <<>>
    /\ asks = <<>>
    /\ trades = <<>>
    /\ call = NoOrder
    /\ ret = <<>>
    /\ pre = [bids |-> <<>>, asks |-> <<>>, trades |-> <<>>]
    /\ calls = 0
    /\ issued = 0
    /\ deleted = {}
    /\ panicked = FALSE
    /\ snapshots = <<>>
    /\ submitted = <<>>

\* the resting orders of one map, each a <<level index, place in the level>>
Slots(book) ==
    UNION {{<<k, i>> : i \in 1..Len(book[k].orders)} : k \in 1..Len(book)}

OrderAt(book, s) == book[s[1]].orders[s[2]]

KeyAt(book, s) == book[s[1]].price

\* some resting order has the side, the limit price and the order id of order
NamedResting(book_bids, book_asks, order) ==
    \/ \E s \in Slots(book_bids) :
          /\ OrderAt(book_bids, s).side = order.side
          /\ OrderAt(book_bids, s).order_id = order.order_id
          /\ DecEq(from_str(OrderAt(book_bids, s).limit_price), from_str(order.limit_price))
    \/ \E s \in Slots(book_asks) :
          /\ OrderAt(book_asks, s).side = order.side
          /\ OrderAt(book_asks, s).order_id = order.order_id
          /\ DecEq(from_str(OrderAt(book_asks, s).limit_price), from_str(order.limit_price))

\* the OrderBook takes the outcome of the call
Taken(order, out) ==
    /\ bids' = out.bids
    /\ asks' = out.asks
    /\ trades' = out.trades
    /\ ret' = out.new_trades
    /\ call' = order
    /\ pre' = [bids |-> bids, asks |-> asks, trades |-> trades]
    /\ calls' = calls + 1
    /\ deleted' = IF order.type_op = "DELETE" /\ NamedResting(bids, asks, order)
                  THEN deleted \cup {order}
                  ELSE deleted
    /\ panicked' = FALSE
    /\ snapshots' = <<>>
    /\ submitted' = IF order.type_op = "CREATE"
                    THEN Append(submitted, order.amount)
                    ELSE submitted

\* process_order(order) reaches an unwrap() of a Decimal::from_str that failed:
\* match_buy_order and match_sell_order parse amount and limit_price before
\* anything else, remove_order parses limit_price
Panics(order) ==
    \/ /\ order.type_op = "CREATE"
       /\ order.side \in {"BUY", "SELL"}
       /\ ~Parses(order.amount) \/ ~Parses(order.limit_price)
    \/ /\ order.type_op = "DELETE"
       /\ ~Parses(order.limit_price)

\* the panic unwinds out of process_order and out of main, which catches
\* nothing: the book is as it was, nothing is returned, the process ends
Unwound(order) ==
    /\ panicked' = TRUE
    /\ call' = order
    /\ ret' = <<>>
    /\ pre' = [bids |-> bids, asks |-> asks, trades |-> trades]
    /\ calls' = calls + 1
    /\ snapshots' = <<>>
    /\ UNCHANGED <<bids, asks, trades, deleted, submitted>>

\* one process_order(order) call, run to completion
Process(order) ==
    /\ calls < MaxCalls
    /\ ~panicked
    /\ IF Panics(order)
       THEN Unwound(order)
       ELSE Taken(order, process_order(<<bids, asks>>, trades, order))

\* a CREATE instruction; its order id is new to the book
Create ==
    \E side \in Sides, price \in PriceTexts, amount \in AmountTexts :
        /\ Process(Order("CREATE", issued + 1, side, price, amount))
        /\ issued' = issued + 1

\* a DELETE instruction, naming any order id handed out so far or one never seen
Delete ==
    \E side \in Sides, price \in PriceTexts, id \in 1..(issued + 1) :
        /\ Process(Order("DELETE", id, side, price, "1"))
        /\ UNCHANGED issued

\* an instruction of any other kind
Other ==
    \E side \in Sides :
        /\ Process(Order("CANCEL", issued + 1, side, "1", "1"))
        /\ UNCHANGED issued

Next == Create \/ Delete \/ Other

Spec == Init /\ [][Next]_vars

\* an instruction of any kind whose limit_price or amount is no decimal
Malformed ==
    \E kind \in {"CREATE", "DELETE", "CANCEL"}, side \in Sides,
       texts \in MalformedPairs, id \in 1..(issued + 1) :
        /\ kind = "DELETE" \/ id = issued + 1
        /\ Process(Order(kind, id, side, texts[1], texts[2]))
        /\ issued' = IF kind = "CREATE" THEN issued + 1 ELSE issued

NextMalformed == Create \/ Delete \/ Other \/ Malformed

\* the caller also hands in instructions with malformed numeric fields
SpecMalformed == Init /\ [][NextMalformed]_vars

\* one generate_order_book_output() call: it takes &self
Snapshot ==
    /\ ~panicked
    /\ Len(snapshots) < MaxSnapshots
    /\ snapshots' = Append(snapshots, generate_order_book_output(bids, asks))
    /\ UNCHANGED <<bids, asks, trades, call, ret, pre, calls, issued, deleted,
                   panicked, submitted>>

NextSnapshot == Create \/ Delete \/ Other \/ Snapshot

\* the caller also reads the book back between process_order calls
SpecSnapshot == Init /\ [][NextSnapshot]_vars

----------------------------------------------------------------------------
(* What the properties below speak of *)

\* the places where order_id rests in one map
SlotsOfId(book, order_id) ==
    {s \in Slots(book) : OrderAt(book, s).order_id = order_id}

Rests(book, order_id) == SlotsOfId(book, order_id) # {}

\* the amount with which order_id rests in one map, zero when it does not
RestingAmount(book, order_id) ==
    IF Rests(book, order_id)
    THEN from_str(OrderAt(book, CHOOSE s \in SlotsOfId(book, order_id) : TRUE).amount)
    ELSE Zero

\* the sum of the amounts of the first n trades of ts
RECURSIVE SumAmounts(_, _)
SumAmounts(ts, n) ==
    IF n = 0 THEN Zero ELSE DecAdd(SumAmounts(ts, n - 1), from_str(ts[n].amount))

\* the sum of the amounts of those of the first n trades of ts whose maker is order_id
RECURSIVE SumMaker(_, _, _)
SumMaker(ts, order_id, n) ==
    IF n = 0 THEN Zero
    ELSE IF ts[n].maker_order_id = order_id
    THEN DecAdd(SumMaker(ts, order_id, n - 1), from_str(ts[n].amount))
    ELSE SumMaker(ts, order_id, n - 1)

\* the last call was a CREATE, a CREATE BUY, a CREATE SELL, a DELETE
IsCreate == calls > 0 /\ call.type_op = "CREATE"
IsBuy == IsCreate /\ call.side = "BUY"
IsSell == IsCreate /\ call.side = "SELL"
IsDelete == calls > 0 /\ call.type_op = "DELETE"

\* the side the last call's order matches against, before and after the call
MakersBefore == IF call.side = "BUY" THEN pre.asks ELSE pre.bids
MakersAfter == IF call.side = "BUY" THEN asks ELSE bids

\* the side the last call's order comes to rest on, after the call
OwnAfter == IF call.side = "BUY" THEN bids ELSE asks

\* the resting order in place s before the call was fully filled by the call
FullyFilled(s) ==
    /\ DecEq(SumMaker(ret, OrderAt(MakersBefore, s).order_id, Len(ret)),
             from_str(OrderAt(MakersBefore, s).amount))
    /\ ~Rests(MakersAfter, OrderAt(MakersBefore, s).order_id)

----------------------------------------------------------------------------
(* Properties *)

\* C1: after any sequence of process_order calls every resting bid price is
\* strictly lower than every resting ask price.
C1_NeverCrossed ==
    \A b \in Slots(bids), a \in Slots(asks) :
        /\ DecLt(KeyAt(bids, b), KeyAt(asks, a))
        /\ DecLt(from_str(OrderAt(bids, b).limit_price),
                 from_str(OrderAt(asks, a).limit_price))

\* a taker traded, its remainder came to rest, and both sides hold orders
C1_Witness ==
    /\ IsCreate
    /\ ret # <<>>
    /\ Rests(OwnAfter, call.order_id)
    /\ Slots(bids) # {}
    /\ Slots(asks) # {}

\* C2 as stated: for every CREATE, the amounts of the returned trades plus the
\* amount with which the order rests right after the call make up the
\* submitted amount.
C2_Conservation ==
    IsCreate =>
        /\ \A n \in 1..Len(ret) : ret[n].taker_order_id = call.order_id
        /\ DecEq(DecAdd(SumAmounts(ret, Len(ret)), RestingAmount(OwnAfter, call.order_id)),
                 from_str(call.amount))

\* C2, amended: the same for every CREATE whose submitted amount is not negative.
C2_ConservationNonNegative ==
    (IsCreate /\ DecLe(Zero, from_str(call.amount))) => C2_Conservation

\* a CREATE with a negative amount
C2_WitnessNegative == IsCreate /\ DecLt(from_str(call.amount), Zero)

\* a taker was filled in part and rests with what is left
C2_Witness ==
    /\ IsCreate
    /\ Len(ret) >= 1
    /\ DecLt(Zero, RestingAmount(OwnAfter, call.order_id))
    /\ DecLt(RestingAmount(OwnAfter, call.order_id), from_str(call.amount))

\* C3: a CREATE BUY with limit price P trades only with resting asks priced at
\* or below P, lowest price first: a resting ask is matched only if every
\* resting ask at a strictly lower price was fully filled by the same call.
C3_BuyPricePriority ==
    IsBuy =>
        /\ \A n \in 1..Len(ret) :
              /\ Rests(pre.asks, ret[n].maker_order_id)
              /\ \A s \in SlotsOfId(pre.asks, ret[n].maker_order_id) :
                    /\ DecLe(KeyAt(pre.asks, s), from_str(call.limit_price))
                    /\ \A o \in Slots(pre.asks) :
                          DecLt(KeyAt(pre.asks, o), KeyAt(pre.asks, s)) => FullyFilled(o)
        /\ \A n \in 1..Len(ret), h \in 1..Len(ret) :
              n < h => DecLe(from_str(ret[n].price), from_str(ret[h].price))

\* a BUY swept two ask levels and stopped below an ask priced above its limit
C3_Witness ==
    /\ IsBuy
    /\ \E n \in 1..Len(ret), h \in 1..Len(ret) :
          DecLt(from_str(ret[n].price), from_str(ret[h].price))
    /\ \E a \in Slots(asks) : DecLt(from_str(call.limit_price), KeyAt(asks, a))

\* C4: a CREATE SELL with limit price P trades only with resting bids priced at
\* or above P, highest price first: a resting bid is matched only if every
\* resting bid at a strictly higher price was fully filled by the same call.
C4_SellPricePriority ==
    IsSell =>
        /\ \A n \in 1..Len(ret) :
              /\ Rests(pre.bids, ret[n].maker_order_id)
              /\ \A s \in SlotsOfId(pre.bids, ret[n].maker_order_id) :
                    /\ DecLe(from_str(call.limit_price), KeyAt(pre.bids, s))
                    /\ \A o \in Slots(pre.bids) :
                          DecLt(KeyAt(pre.bids, s), KeyAt(pre.bids, o)) => FullyFilled(o)
        /\ \A n \in 1..Len(ret), h \in 1..Len(ret) :
              n < h => DecLe(from_str(ret[h].price), from_str(ret[n].price))

\* a SELL swept two bid levels and stopped above a bid priced below its limit
C4_Witness ==
    /\ IsSell
    /\ \E n \in 1..Len(ret), h \in 1..Len(ret) :
          DecLt(from_str(ret[h].price), from_str(ret[n].price))
    /\ \E b \in Slots(bids) : DecLt(KeyAt(bids, b), from_str(call.limit_price))

\* the ids of the orders of one level, in the level's order
IdsOf(orders) == [i \in 1..Len(orders) |-> orders[i].order_id]

\* the orders of the level of book whose key equals price, none when there is no such level
OrdersAtPrice(book, price) ==
    IF LevelIndex(book, price) = 0 THEN <<>> ELSE book[LevelIndex(book, price)].orders

\* what is left of the taker just before the n-th trade of the call
TakerBefore(n) == DecSub(from_str(call.amount), SumAmounts(ret, n - 1))

\* what is left of the maker of the n-th trade of the call just before that trade
MakerBefore(n) ==
    DecSub(RestingAmount(MakersBefore, ret[n].maker_order_id),
           SumMaker(ret, ret[n].maker_order_id, n - 1))

\* C5: within a level, resting orders are matched in the order in which they
\* came to rest there: an order is matched only if every order ahead of it in
\* its level is fully filled by the call; what is left of a level after the
\* call is its tail, in the same order, so a partially filled maker keeps its
\* place; a taker's remainder goes to the end of its level; and so every
\* level holds its orders in order of arrival (order ids are handed out in
\* order of arrival).
C5_TimePriority ==
    /\ \A k \in 1..Len(bids) :
          \A i \in 1..Len(bids[k].orders), j \in 1..Len(bids[k].orders) :
              i < j => bids[k].orders[i].order_id < bids[k].orders[j].order_id
    /\ \A k \in 1..Len(asks) :
          \A i \in 1..Len(asks[k].orders), j \in 1..Len(asks[k].orders) :
              i < j => asks[k].orders[i].order_id < asks[k].orders[j].order_id
    /\ IsCreate =>
          /\ \A n \in 1..Len(ret) :
                \A s \in SlotsOfId(MakersBefore, ret[n].maker_order_id) :
                    \A i \in 1..(s[2] - 1) : FullyFilled(<<s[1], i>>)
          /\ \A k \in 1..Len(MakersBefore) :
                LET before == IdsOf(MakersBefore[k].orders)
                    after == IdsOf(OrdersAtPrice(MakersAfter, MakersBefore[k].price))
                IN after = SubSeq(before, Len(before) - Len(after) + 1, Len(before))
          /\ \A s \in SlotsOfId(OwnAfter, call.order_id) :
                /\ s[2] = Len(OwnAfter[s[1]].orders)
                /\ IdsOf(SubSeq(OwnAfter[s[1]].orders, 1, s[2] - 1))
                      = IdsOf(OrdersAtPrice(IF call.side = "BUY" THEN pre.bids ELSE pre.asks,
                                            KeyAt(OwnAfter, s)))

\* a maker at the head of a level of two was filled in part and is still its head
C5_Witness ==
    /\ IsCreate
    /\ \E k \in 1..Len(MakersAfter) :
          /\ Len(MakersAfter[k].orders) >= 2
          /\ DecLt(Zero, SumMaker(ret, MakersAfter[k].orders[1].order_id, Len(ret)))

\* C6: every trade of a call, for a BUY taker and for a SELL taker, has as its
\* price the price of the level at which its maker was resting.
C6_MakerPrice ==
    IsCreate =>
        \A n \in 1..Len(ret) :
            /\ Rests(MakersBefore, ret[n].maker_order_id)
            /\ \A s \in SlotsOfId(MakersBefore, ret[n].maker_order_id) :
                  /\ ret[n].price = to_string(KeyAt(MakersBefore, s))
                  /\ DecEq(from_str(ret[n].price), KeyAt(MakersBefore, s))
                  /\ DecEq(from_str(ret[n].price),
                           from_str(OrderAt(MakersBefore, s).limit_price))

\* a BUY traded below its limit price
C6_Witness ==
    /\ IsBuy
    /\ \E n \in 1..Len(ret) : DecLt(from_str(ret[n].price), from_str(call.limit_price))

\* C7: each trade's amount is the lesser of what is left of the taker and what
\* is left of the maker just before the trade; when that is less than the
\* maker's amount, the maker stays on its side at its price with its amount
\* reduced by the trade amount.
C7_TradeAmount ==
    IsCreate =>
        \A n \in 1..Len(ret) :
            /\ DecEq(from_str(ret[n].amount),
                     IF DecLe(TakerBefore(n), MakerBefore(n))
                     THEN TakerBefore(n) ELSE MakerBefore(n))
            /\ DecLt(from_str(ret[n].amount), MakerBefore(n)) =>
                  /\ Rests(MakersAfter, ret[n].maker_order_id)
                  /\ DecEq(RestingAmount(MakersAfter, ret[n].maker_order_id),
                           DecSub(MakerBefore(n), from_str(ret[n].amount)))
                  /\ \A s \in SlotsOfId(MakersAfter, ret[n].maker_order_id) :
                        \E b \in SlotsOfId(MakersBefore, ret[n].maker_order_id) :
                            /\ DecEq(KeyAt(MakersAfter, s), KeyAt(MakersBefore, b))
                            /\ OrderAt(MakersAfter, s).side = OrderAt(MakersBefore, b).side
                            /\ OrderAt(MakersAfter, s).limit_price
                                  = OrderAt(MakersBefore, b).limit_price

\* a taker filled one maker in full and, with what was left of it, a second in part
C7_Witness ==
    /\ IsCreate
    /\ Len(ret) >= 2
    /\ DecLt(from_str(ret[Len(ret)].amount), MakerBefore(Len(ret)))
    /\ DecLt(TakerBefore(Len(ret)), from_str(call.amount))

\* C8: when a trade's amount is the maker's whole remaining amount, the maker
\* is no longer in the book after the call, and its level is gone when no
\* other order rests there; a taker that is fully filled is not inserted.
C8_FullFillRemoval ==
    IsCreate =>
        /\ \A n \in 1..Len(ret) :
              DecEq(from_str(ret[n].amount), MakerBefore(n)) =>
                  /\ ~Rests(bids, ret[n].maker_order_id)
                  /\ ~Rests(asks, ret[n].maker_order_id)
        /\ \A k \in 1..Len(MakersAfter) : MakersAfter[k].orders # <<>>
        /\ DecEq(SumAmounts(ret, Len(ret)), from_str(call.amount)) =>
              /\ ~Rests(bids, call.order_id)
              /\ ~Rests(asks, call.order_id)

\* a taker was fully filled by the only order of a level, and the level is gone
C8_Witness ==
    /\ IsCreate
    /\ ret # <<>>
    /\ DecEq(SumAmounts(ret, Len(ret)), from_str(call.amount))
    /\ \E k \in 1..Len(MakersBefore) :
          /\ Len(MakersBefore[k].orders) = 1
          /\ MakersBefore[k].orders[1].order_id = ret[Len(ret)].maker_order_id
          /\ LevelIndex(MakersAfter, MakersBefore[k].price) = 0

\* the order ids in the snapshot of the book
SnapshotIds ==
    {generate_order_book_output(bids, asks)[i].order_id :
        i \in 1..Len(generate_order_book_output(bids, asks))}

\* C9: after a DELETE that names the side, limit price and order id of a
\* resting order, that order is in no later snapshot and is the maker of no
\* trade of any later call.
C9_DeletedStaysGone ==
    \A d \in deleted :
        /\ d.order_id \notin SnapshotIds
        /\ ~Rests(bids, d.order_id)
        /\ ~Rests(asks, d.order_id)
        /\ \A n \in 1..Len(ret) : ret[n].maker_order_id # d.order_id

\* an order was filled in part, then deleted, and a later CREATE of the other
\* side priced to match it has been processed
C9_Witness ==
    /\ IsCreate
    /\ DecLt(Zero, from_str(call.amount))
    /\ \E d \in deleted :
          /\ DecLt(Zero, SumMaker(trades, d.order_id, Len(trades)))
          /\ d.side # call.side
          /\ IF call.side = "BUY"
             THEN DecLe(from_str(d.limit_price), from_str(call.limit_price))
             ELSE DecLe(from_str(call.limit_price), from_str(d.limit_price))

\* C10: a DELETE for which no resting order has the instruction's side, limit
\* price and order id returns no trades and leaves bids, asks and the ledger
\* as they were.
C10_DeleteMissingNoOp ==
    (IsDelete /\ ~NamedResting(pre.bids, pre.asks, call)) =>
        /\ ret = <<>>
        /\ bids = pre.bids
        /\ asks = pre.asks
        /\ trades = pre.trades

\* a DELETE named the price and the id of a resting order, and the other side
C10_Witness ==
    /\ IsDelete
    /\ ~NamedResting(pre.bids, pre.asks, call)
    /\ \/ \E s \in Slots(pre.bids) :
             /\ OrderAt(pre.bids, s).order_id = call.order_id
             /\ DecEq(KeyAt(pre.bids, s), from_str(call.limit_price))
       \/ \E s \in Slots(pre.asks) :
             /\ OrderAt(pre.asks, s).order_id = call.order_id
             /\ DecEq(KeyAt(pre.asks, s), from_str(call.limit_price))

\* C11: a process_order call whose limit_price or amount text is no decimal
\* does not panic, leaves the book and the ledger as they were, and the
\* instructions after it are still processed.
C11_MalformedRejected ==
    (calls > 0 /\ (~Parses(call.limit_price) \/ ~Parses(call.amount))) =>
        /\ ~panicked
        /\ ret = <<>>
        /\ bids = pre.bids
        /\ asks = pre.asks
        /\ trades = pre.trades

\* C12: a CREATE, BUY or SELL, whose amount is zero or negative returns no
\* trade and leaves bids, asks and the ledger as they were, whatever the book
\* holds.
C12_NonPositiveAmountNoEffect ==
    (IsCreate /\ DecLe(from_str(call.amount), Zero)) =>
        /\ ret = <<>>
        /\ bids = pre.bids
        /\ asks = pre.asks
        /\ trades = pre.trades

\* a CREATE with an amount below zero was priced to match a resting order of
\* the other side, while its own side held orders too
C12_Witness ==
    /\ IsCreate
    /\ DecLt(from_str(call.amount), Zero)
    /\ pre.bids # <<>>
    /\ pre.asks # <<>>
    /\ \E s \in Slots(MakersBefore) :
          IF call.side = "BUY"
          THEN DecLe(KeyAt(MakersBefore, s), from_str(call.limit_price))
          ELSE DecLe(from_str(call.limit_price), KeyAt(MakersBefore, s))

\* the last call's operation kind was neither CREATE nor DELETE
IsOther == calls > 0 /\ call.type_op \notin {"CREATE", "DELETE"}

\* C13: a process_order call whose operation kind is neither CREATE nor DELETE
\* returns no trades, leaves bids, asks and the ledger as they were, and does
\* not stop the processing of later instructions.
C13_UnknownKindNoOp ==
    IsOther =>
        /\ ret = <<>>
        /\ bids = pre.bids
        /\ asks = pre.asks
        /\ trades = pre.trades
        /\ ~panicked

\* a call of unknown kind, priced to match a resting order, met a book with
\* orders and a ledger with trades
C13_Witness ==
    /\ IsOther
    /\ pre.trades # <<>>
    /\ \E s \in Slots(MakersBefore) :
          IF call.side = "BUY"
          THEN DecLe(KeyAt(MakersBefore, s), from_str(call.limit_price))
          ELSE DecLe(from_str(call.limit_price), KeyAt(MakersBefore, s))

\* C14: process_order returns the trades of that call (the call's order is
\* their taker, a CREATE is the only kind that has any) and the ledger after
\* the call is the ledger before it followed by the returned trades in the
\* same order, so no recorded trade is changed, reordered or removed.
C14_LedgerAppendOnly ==
    calls > 0 =>
        /\ trades = pre.trades \o ret
        /\ \A n \in 1..Len(ret) :
              /\ ret[n].taker_order_id = call.order_id
              /\ Rests(MakersBefore, ret[n].maker_order_id)
        /\ ~IsCreate => ret = <<>>

\* a call that returned two trades met a ledger that already held a trade
\* of another amount
C14_Witness ==
    /\ Len(ret) = 2
    /\ pre.trades # <<>>
    /\ ret[1] # ret[2]
    /\ pre.trades[1].amount # ret[1].amount

\* place s comes before place t in a map
SlotBefore(s, t) == s[1] < t[1] \/ (s[1] = t[1] /\ s[2] < t[2])

\* the rank of place s among the places of a map
PlaceOf(book, s) == 1 + Cardinality({t \in Slots(book) : SlotBefore(t, s)})

\* out holds one entry for each resting order, with the order's id, side and
\* amount and the price of its level, bids first, each side by ascending price
\* and by place within a level
IsProjection(out) ==
    /\ Len(out) = Cardinality(Slots(bids)) + Cardinality(Slots(asks))
    /\ \A s \in Slots(bids) :
          /\ out[PlaceOf(bids, s)].order_id = OrderAt(bids, s).order_id
          /\ out[PlaceOf(bids, s)].side = "BUY"
          /\ out[PlaceOf(bids, s)].amount = OrderAt(bids, s).amount
          /\ out[PlaceOf(bids, s)].price = to_string(KeyAt(bids, s))
    /\ \A s \in Slots(asks) :
          /\ out[Cardinality(Slots(bids)) + PlaceOf(asks, s)].order_id = OrderAt(asks, s).order_id
          /\ out[Cardinality(Slots(bids)) + PlaceOf(asks, s)].side = "SELL"
          /\ out[Cardinality(Slots(bids)) + PlaceOf(asks, s)].amount = OrderAt(asks, s).amount
          /\ out[Cardinality(Slots(bids)) + PlaceOf(asks, s)].price = to_string(KeyAt(asks, s))
    /\ \A n \in 1..Len(out) : \A m \in (n + 1)..Len(out) :
          /\ out[n].side = "SELL" => out[m].side = "SELL"
          /\ out[n].side = out[m].side =>
                DecLe(from_str(out[n].price), from_str(out[m].price))

\* every output returned since the last process_order call is such a
\* projection of the book, and they are all the same
SnapshotsProject ==
    \A i \in 1..Len(snapshots) :
        /\ IsProjection(snapshots[i])
        /\ \A j \in 1..Len(snapshots) : snapshots[i] = snapshots[j]

\* a step that returns an output changes neither the book nor the ledger
SnapshotReadOnly ==
    Len(snapshots') > Len(snapshots) => UNCHANGED <<bids, asks, trades>>

NamedByCall(o) ==
    /\ o.side = call.side
    /\ o.order_id = call.order_id
    /\ DecEq(from_str(o.limit_price), from_str(call.limit_price))

NotNamedByCall(o) == ~NamedByCall(o)

\* after is before less the order named by the last call: every level of
\* before keeps its other orders, unchanged and in their order, and after has
\* no level that before had not
LessNamed(before, after) ==
    /\ \A k \in 1..Len(before) :
          OrdersAtPrice(after, before[k].price) =
              SelectSeq(before[k].orders, NotNamedByCall)
    /\ \A k \in 1..Len(after) : LevelIndex(before, after[k].price) # 0

\* C16: a DELETE removes only the resting order whose side, limit price and
\* order id are those of the instruction, whatever the instruction's amount;
\* every other resting order of both sides keeps its amount and its place
\* relative to the others of its level, and the ledger is unchanged.
C16_DeleteFrame ==
    IsDelete =>
        /\ LessNamed(pre.bids, bids)
        /\ LessNamed(pre.asks, asks)
        /\ Cardinality(Slots(pre.bids)) + Cardinality(Slots(pre.asks))
              <= Cardinality(Slots(bids)) + Cardinality(Slots(asks)) + 1
        /\ trades = pre.trades
        /\ ret = <<>>

\* a DELETE named a resting order whose amount is not the instruction's and
\* which shared its level with another order, while the other side held
\* orders too
C16_Witness ==
    /\ IsDelete
    /\ Slots(MakersAfter) # {}
    /\ \E k \in 1..Len(IF call.side = "BUY" THEN pre.bids ELSE pre.asks) :
          \E i \in 1..Len((IF call.side = "BUY" THEN pre.bids ELSE pre.asks)[k].orders) :
              /\ Len((IF call.side = "BUY" THEN pre.bids ELSE pre.asks)[k].orders) >= 2
              /\ NamedByCall((IF call.side = "BUY" THEN pre.bids ELSE pre.asks)[k].orders[i])
              /\ (IF call.side = "BUY" THEN pre.bids ELSE pre.asks)[k].orders[i].amount # call.amount

\* every order of the map rests with an amount above zero, under the level
\* whose key is its limit price, and has the given side
WellStored(book, side) ==
    \A s \in Slots(book) :
        /\ DecLt(Zero, from_str(OrderAt(book, s).amount))
        /\ DecEq(from_str(OrderAt(book, s).limit_price), KeyAt(book, s))
        /\ OrderAt(book, s).side = side

\* C17: in every state reached through process_order each order stored in
\* the bid map or the ask map has a remaining amount above zero, a limit
\* price equal to the key of its level, and the side of its map: BUY in bids,
\* SELL in asks.
C17_StoredOrdersWellFormed ==
    /\ WellStored(bids, "BUY")
    /\ WellStored(asks, "SELL")

\* both maps hold orders, one of them what is left of a maker that was
\* filled in part, after a CREATE whose amount was not above zero
C17_Witness ==
    /\ IsCreate
    /\ DecLe(from_str(call.amount), Zero)
    /\ Slots(bids) # {}
    /\ Slots(asks) # {}
    /\ \E n \in 1..Len(trades) :
          Rests(bids, trades[n].maker_order_id) \/ Rests(asks, trades[n].maker_order_id)

\* some level of before is gone from after
LevelGone(before, after) ==
    \E k \in 1..Len(before) : LevelIndex(after, before[k].price) = 0

\* C18: in every state reached through process_order, after matching on
\* either side and after DELETE, no level of the bid map or the ask map holds
\* an empty sequence of orders: a level goes in the call that removes its last
\* order.
C18_NoEmptyLevel ==
    /\ \A k \in 1..Len(bids) : bids[k].orders # <<>>
    /\ \A k \in 1..Len(asks) : asks[k].orders # <<>>

\* a DELETE removed the last order of a level while other levels of that map
\* stayed
C18_Witness ==
    /\ IsDelete
    /\ OwnAfter # <<>>
    /\ LevelGone(IF call.side = "BUY" THEN pre.bids ELSE pre.asks, OwnAfter)

C20_MakerMatchedOnce ==
    IsCreate =>
        /\ \A n \in 1..Len(ret) : \A m \in (n + 1)..Len(ret) :
              ret[n].maker_order_id # ret[m].maker_order_id
        /\ \A n \in 1..(Len(ret) - 1) :
              /\ DecEq(from_str(ret[n].amount),
                       RestingAmount(MakersBefore, ret[n].maker_order_id))
              /\ ~Rests(MakersAfter, ret[n].maker_order_id)

\* a SELL taker swept two bid levels and left the maker of its second trade
\* filled in part
C20_Witness ==
    /\ IsSell
    /\ Len(ret) = 2
    /\ DecLt(from_str(ret[2].price), from_str(ret[1].price))
    /\ Rests(bids, ret[2].maker_order_id)

\* the ids of the orders removed by a DELETE
DeletedIds == {d.order_id : d \in deleted}

\* what the ledger and the book account for of order_id: the amounts of all
\* the trades it took or made, and the amount it rests with
AccountedFor(order_id) ==
    DecAdd(DecAdd(TradedAmount(trades, order_id, Len(trades)),
                  SumMaker(trades, order_id, Len(trades))),
           DecAdd(RestingAmount(bids, order_id), RestingAmount(asks, order_id)))

Conserved(order_id) == DecEq(from_str(submitted[order_id]), AccountedFor(order_id))

\* C21 as stated: over any sequence of process_order calls, for every created
\* order that no DELETE has removed, the submitted amount equals the sum of
\* the amounts of all ledger trades in which it is taker or maker plus the
\* amount it rests with, zero when it rests no longer.
C21_GlobalConservation ==
    \A id \in 1..Len(submitted) : id \notin DeletedIds => Conserved(id)

\* C21, amended: the same for every such order whose submitted amount is not
\* negative.
C21_GlobalConservationNonNegative ==
    \A id \in 1..Len(submitted) :
        (id \notin DeletedIds /\ DecLe(Zero, from_str(submitted[id]))) => Conserved(id)

\* one order took a trade, came to rest and then made a trade, another was
\* filled in part as a maker and still rests
C21_Witness ==
    /\ \E id \in 1..Len(submitted) :
          /\ DecLt(Zero, TradedAmount(trades, id, Len(trades)))
          /\ DecLt(Zero, SumMaker(trades, id, Len(trades)))
    /\ \E id \in 1..Len(submitted) :
          /\ DecLt(Zero, SumMaker(trades, id, Len(trades)))
          /\ Rests(bids, id) \/ Rests(asks, id)

=============================================================================
